---- MODULE Spec2Model ----
(***************************************************************************)
(* A model of the compressor crate: the Compressor (src/src/lib.rs), its    *)
(* even gain functions (src/src/even_gain_fn.rs) and its buffer-processing  *)
(* entry points (src/src/dsp_node.rs).                                      *)
(*                                                                          *)
(* Numbers.  f32 amplitudes (samples, envelopes, threshold, slope, gains)   *)
(* are fixed-point integers in units of 1/One, so 1.0 is One.  Products and *)
(* quotients round toward zero, as a finite-precision multiply does.  NaN   *)
(* is a value of its own, below every number the model computes; nothing is *)
(* ever computed from it.  Durations in frames are kept in units of         *)
(* 1/FramesUnit of a frame, so ms * hz is exactly the f64 value             *)
(* ms * hz / 1000.                                                          *)
(***************************************************************************)
EXTENDS Integers, Sequences, FiniteSets, TLC

VARIABLES
    c,          \* the Compressor: its fields and its envelope detector
    output,     \* the caller's buffer `output` as the last call left it
    input,      \* the same buffer as it was handed to the last call
    ret,        \* what the last call returned (a gain, a frame of gains)
    panicked,   \* the last call panicked (index out of bounds)
    trace,      \* the detector steps of the last call, in order
    op,         \* the last call and its arguments
    pre,        \* the Compressor as it was when the last call began
    calls       \* number of calls made so far

vars == <<c, output, input, ret, panicked, trace, op, pre, calls>>

----------------------------------------------------------------------------
(* Bounds of the model.                                                     *)

MaxCalls == 2
MaxChannels == 2
MaxFrames == 2
MaxBufLen == 4

----------------------------------------------------------------------------
(* Arithmetic.                                                              *)

One == 64
FramesUnit == 1000
\* 0.0 / 0.0
NaN == -(One * One * One)

Abs(x) == IF x < 0 THEN -x ELSE x

Min2(a, b) == IF b < a THEN b ELSE a

\* a / b rounded toward zero, b /= 0
Quot(a, b) ==
    LET q == Abs(a) \div Abs(b)
    IN  IF (a < 0) = (b < 0) THEN q ELSE -q

Mul(a, b) == Quot(a * b, One)

RECURSIVE SumSeq(_)
SumSeq(s) == IF s = <<>> THEN 0 ELSE Head(s) + SumSeq(Tail(s))

Zeros(n) == [i \in 1..n |-> 0]

\* floor of the square root of x * One, for an x >= 0 in units of 1/One
Sqrt(x) ==
    CHOOSE r \in 0..(x + One) : r * r <= x * One /\ (r + 1) * (r + 1) > x * One

----------------------------------------------------------------------------
(* time_calc and envelope_detector, the crates the Compressor is built on.  *)

\* Ms::samples(sample_hz): ms * sample_hz / 1000 frames
Ms_samples(ms, sample_hz) == ms * sample_hz

\* `frames as usize`
as_usize(frames) == frames \div FramesUnit

\* d + gain * (l - d), the gain of a duration of `frames` being
\* exp(-1 / frames) (0 for no frames), approximated here by frames / (frames + 1)
Smooth(frames, l, d) == d + Quot(frames * (l - d), frames + FramesUnit)

\* The Rms window of one channel: the squares of its last Len(win) samples.
Rms_next(win, sample) ==
    IF Len(win) = 0
    THEN [win |-> win, mag |-> 0]
    ELSE LET w == Append(Tail(win), Mul(sample, sample))
         IN  [win |-> w, mag |-> Sqrt(Quot(SumSeq(w), Len(w)))]

\* One channel of the detector stepped by one sample: its envelope `env` and
\* its window `win` after the step.
ChannelNext(kind, det, env, win, sample) ==
    LET r   == IF kind = "Rms" THEN Rms_next(win, sample)
                              ELSE [win |-> win, mag |-> Abs(sample)]
        d   == r.mag
        new == IF env < d THEN Smooth(det.attack_frames, env, d)
                          ELSE Smooth(det.release_frames, env, d)
    IN  [env |-> new, win |-> r.win]

ResizeWin(w, n) ==
    IF Len(w) >= n THEN SubSeq(w, Len(w) - n + 1, Len(w))
                   ELSE Zeros(n - Len(w)) \o w

set_attack_frames(det, frames) == [det EXCEPT !.attack_frames = frames]

set_release_frames(det, frames) == [det EXCEPT !.release_frames = frames]

set_window_frames(det, n) ==
    [det EXCEPT !.window_frames = n,
                !.win = [i \in 1..Len(det.win) |-> ResizeWin(det.win[i], n)]]

\* The detector of a new Compressor: every channel silent.
NewDetector(window_ms, window_frames, attack_frames, release_frames, n_channels) ==
    [attack_frames  |-> attack_frames,
     release_frames |-> release_frames,
     window_ms      |-> window_ms,
     window_frames  |-> window_frames,
     env            |-> Zeros(n_channels),
     win            |-> [i \in 1..n_channels |-> Zeros(window_frames)]]

----------------------------------------------------------------------------
(* src/src/lib.rs                                                           *)

calc_slope(ratio) == One - Quot(One * One, ratio)

new(kind, egf, detector, attack_ms, release_ms, threshold, ratio) ==
    [kind       |-> kind,
     egf        |-> egf,
     det        |-> detector,
     attack_ms  |-> attack_ms,
     release_ms |-> release_ms,
     threshold  |-> threshold,
     slope      |-> calc_slope(ratio)]

peak(egf, attack_ms, release_ms, sample_hz, n_channels, threshold, ratio) ==
    new("Peak", egf,
        NewDetector(0, 0, Ms_samples(attack_ms, sample_hz),
                    Ms_samples(release_ms, sample_hz), n_channels),
        attack_ms, release_ms, threshold, ratio)

rms(egf, window_ms, attack_ms, release_ms, sample_hz, n_channels, threshold, ratio) ==
    new("Rms", egf,
        NewDetector(window_ms, as_usize(Ms_samples(window_ms, sample_hz)),
                    Ms_samples(attack_ms, sample_hz),
                    Ms_samples(release_ms, sample_hz), n_channels),
        attack_ms, release_ms, threshold, ratio)

update_attack_to_sample_hz(cm, sample_hz) ==
    [cm EXCEPT !.det = set_attack_frames(cm.det, Ms_samples(cm.attack_ms, sample_hz))]

update_release_to_sample_hz(cm, sample_hz) ==
    [cm EXCEPT !.det = set_release_frames(cm.det, Ms_samples(cm.release_ms, sample_hz))]

update_window_to_sample_hz(cm, sample_hz) ==
    [cm EXCEPT !.det =
        set_window_frames(cm.det, as_usize(Ms_samples(cm.det.window_ms, sample_hz)))]

\* The duration stored, the detector left as it was.
set_attack_ms_stale(cm, ms, sample_hz) == [cm EXCEPT !.attack_ms = ms]

set_attack_ms(cm, ms, sample_hz) ==
    update_attack_to_sample_hz([cm EXCEPT !.attack_ms = ms], sample_hz)

set_release_ms(cm, ms, sample_hz) ==
    update_release_to_sample_hz([cm EXCEPT !.release_ms = ms], sample_hz)

set_window_ms(cm, ms, sample_hz) ==
    update_window_to_sample_hz([cm EXCEPT !.det.window_ms = ms], sample_hz)

----------------------------------------------------------------------------
(* A call in progress: the Compressor `c`, the caller's buffer `out`, the   *)
(* detector steps made so far, the value last returned, and whether the     *)
(* call has panicked.  A panic ends the call: every later step is skipped.  *)

Machine(cm, buf) ==
    [c |-> cm, out |-> buf, panicked |-> FALSE, trace |-> <<>>, ret |-> 0]

Panic(m) == [m EXCEPT !.panicked = TRUE]

\* F applied to the value of v: v is evaluated once, however often F uses it.
Bind(v, F(_)) == CHOOSE r \in {F(x) : x \in {v}} : TRUE

\* The detector stepped for channel `channel_idx` by `sample`; the envelope of
\* that channel is returned.  Indexing a channel the detector does not have
\* panics.
Detector_next(m, channel_idx, sample) ==
    IF channel_idx >= Len(m.c.det.env)
    THEN Panic(m)
    ELSE LET i   == channel_idx + 1
             det == m.c.det
             r   == ChannelNext(m.c.kind, det, det.env[i], det.win[i], sample)
         IN  [m EXCEPT !.c.det.env[i] = r.env,
                       !.c.det.win[i] = r.win,
                       !.ret = r.env,
                       !.trace = Append(@, [channel        |-> channel_idx,
                                            sample         |-> sample,
                                            attack_frames  |-> det.attack_frames,
                                            release_frames |-> det.release_frames,
                                            window_frames  |-> det.window_frames])]

\* The detector stepped by a whole frame, channel by channel.
RECURSIVE Detector_next_frame(_, _, _)
Detector_next_frame(m, next_frame, channel_idx) ==
    IF m.panicked \/ channel_idx >= Len(next_frame)
    THEN m
    ELSE Bind(Detector_next(m, channel_idx, next_frame[channel_idx + 1]),
              LAMBDA m1 : Detector_next_frame(m1, next_frame, channel_idx + 1))

\* The gain law without its comparison against the threshold.
GainLaw_unconditional(s, threshold, slope) == One - Mul(s - threshold, slope)

\* The gain law of one channel, lib.rs line 140.
GainLaw(s, threshold, slope) ==
    IF s > threshold THEN One - Mul(s - threshold, slope) ELSE One

\* The envelope left as detected.
Clamp_missing(s) == s

\* lib.rs line 139
Clamp(s) == IF s > One THEN One ELSE s

next_gain_per_channel(m, next_frame) ==
    LET threshold == m.c.threshold
        slope     == m.c.slope
        m1        == Detector_next_frame(m, next_frame, 0)
        env_frame == m1.c.det.env
    IN  IF m1.panicked THEN m1
        ELSE [m1 EXCEPT !.ret =
                 [i \in 1..Len(env_frame) |-> GainLaw(Clamp(env_frame[i]), threshold, slope)]]

\* The per-channel form the even gain functions and compress_per_channel call.
next_gain_for_channel(m, channel_idx, sample) ==
    Bind(Detector_next(m, channel_idx, sample),
         LAMBDA m1 :
             IF m1.panicked THEN m1
             ELSE [m1 EXCEPT !.ret = GainLaw(m1.ret, m.c.threshold, m.c.slope)])

----------------------------------------------------------------------------
(* src/src/even_gain_fn.rs                                                  *)

\* The sum returned undivided.
MeanOf_undivided(sum, channel_idx) == sum

\* sum / channel_idx as f32
MeanOf(sum, channel_idx) == IF channel_idx = 0 THEN NaN ELSE Quot(sum, channel_idx)

RECURSIVE Average_loop(_, _, _, _)
Average_loop(m, sample_per_channel, channel_idx, sum) ==
    IF channel_idx >= Len(sample_per_channel)
    THEN [m EXCEPT !.ret = MeanOf(sum, channel_idx)]
    ELSE Bind(next_gain_for_channel(m, channel_idx, sample_per_channel[channel_idx + 1]),
              LAMBDA m1 :
                  IF m1.panicked THEN m1
                  ELSE Average_loop(m1, sample_per_channel, channel_idx + 1, sum + m1.ret))

Average_next_gain(m, sample_per_channel) ==
    Average_loop(m, sample_per_channel, 0, 0)

RECURSIVE Minimum_loop(_, _, _, _)
Minimum_loop(m, sample_per_channel, channel_idx, gain) ==
    IF channel_idx >= Len(sample_per_channel)
    THEN [m EXCEPT !.ret = gain]
    ELSE Bind(next_gain_for_channel(m, channel_idx, sample_per_channel[channel_idx + 1]),
              LAMBDA m1 :
                  IF m1.panicked THEN m1
                  ELSE Minimum_loop(m1, sample_per_channel, channel_idx + 1,
                                    Min2(gain, m1.ret)))

Minimum_next_gain(m, sample_per_channel) ==
    Minimum_loop(m, sample_per_channel, 0, One)

\* The even gain function run over the frame twice: every channel of the frame
\* stepped a second time.
next_gain_twice(m, next_frame) ==
    Bind(IF m.c.egf = "Average" THEN Average_next_gain(m, next_frame)
                                ELSE Minimum_next_gain(m, next_frame),
         LAMBDA m1 :
             IF m1.panicked THEN m1
             ELSE IF m1.c.egf = "Average" THEN Average_next_gain(m1, next_frame)
                                          ELSE Minimum_next_gain(m1, next_frame))

\* Compressor::next_gain, lib.rs line 146: EGF::next_gain(self, next_frame)
next_gain(m, next_frame) ==
    IF m.c.egf = "Average" THEN Average_next_gain(m, next_frame)
                           ELSE Minimum_next_gain(m, next_frame)

\* Compressor::next_frame: the frame scaled by its even gain.
next_frame(m, frame) ==
    Bind(next_gain(m, frame),
         LAMBDA m1 :
             IF m1.panicked THEN m1
             ELSE [m1 EXCEPT !.out = [i \in 1..Len(frame) |-> Mul(frame[i], m1.ret)]])

----------------------------------------------------------------------------
(* src/src/dsp_node.rs                                                      *)

RECURSIVE compress_per_channel_loop(_, _, _, _, _, _)
compress_per_channel_loop(m, idx, f, j, n_frames, n_channels) ==
    IF f >= n_frames THEN m
    ELSE IF j >= n_channels
    THEN compress_per_channel_loop(m, idx, f + 1, 0, n_frames, n_channels)
    ELSE IF idx >= Len(m.out) THEN Panic(m)
    ELSE Bind(next_gain_for_channel(m, j, m.out[idx + 1]),
              LAMBDA m1 :
                  IF m1.panicked THEN m1
                  ELSE Bind([m1 EXCEPT !.out[idx + 1] = Mul(m.out[idx + 1], m1.ret)],
                            LAMBDA m2 : compress_per_channel_loop(m2, idx + 1, f, j + 1,
                                                n_frames, n_channels)))

\* Every sample run through the envelope of channel 0.
RECURSIVE compress_one_envelope_loop(_, _, _, _, _, _)
compress_one_envelope_loop(m, idx, f, j, n_frames, n_channels) ==
    IF f >= n_frames THEN m
    ELSE IF j >= n_channels
    THEN compress_one_envelope_loop(m, idx, f + 1, 0, n_frames, n_channels)
    ELSE IF idx >= Len(m.out) THEN Panic(m)
    ELSE Bind(next_gain_for_channel(m, 0, m.out[idx + 1]),
              LAMBDA m1 :
                  IF m1.panicked THEN m1
                  ELSE Bind([m1 EXCEPT !.out[idx + 1] = Mul(m.out[idx + 1], m1.ret)],
                            LAMBDA m2 : compress_one_envelope_loop(m2, idx + 1, f, j + 1,
                                                n_frames, n_channels)))

compress_one_envelope(m, n_frames, n_channels) ==
    compress_one_envelope_loop(m, 0, 0, 0, n_frames, n_channels)

compress_per_channel(m, n_frames, n_channels) ==
    compress_per_channel_loop(m, 0, 0, 0, n_frames, n_channels)

\* The inner loop stopping one channel short.
ScaleFrame_one_short(buf, idx, n_channels, gain) ==
    [i \in 1..Len(buf) |->
        IF i > idx /\ i < idx + n_channels THEN Mul(gain, buf[i]) ELSE buf[i]]

\* The inner loop of compress: n_channels samples from idx on, scaled by gain.
ScaleFrame(buf, idx, n_channels, gain) ==
    [i \in 1..Len(buf) |->
        IF i > idx /\ i <= idx + n_channels THEN Mul(gain, buf[i]) ELSE buf[i]]

RECURSIVE compress_loop(_, _, _, _, _)
compress_loop(m, idx, f, n_frames, n_channels) ==
    IF f >= n_frames THEN m
    ELSE LET end_idx == idx + n_channels
         IN  IF end_idx > Len(m.out) THEN Panic(m)
             ELSE Bind(next_gain(m, SubSeq(m.out, idx + 1, end_idx)),
                       LAMBDA m1 :
                           IF m1.panicked THEN m1
                           ELSE Bind([m1 EXCEPT !.out = ScaleFrame(m1.out, idx, n_channels, m1.ret)],
                                     LAMBDA m2 : compress_loop(m2, end_idx, f + 1,
                                                               n_frames, n_channels)))

\* compress checking its buffer and channel count before the first frame.
compress_validating(m, n_frames, n_channels) ==
    IF n_frames > 0 /\ (n_channels > Len(m.c.det.env) \/ n_frames * n_channels > Len(m.out))
    THEN Panic(m)
    ELSE compress_loop(m, 0, 0, n_frames, n_channels)

compress(m, n_frames, n_channels) ==
    compress_loop(m, 0, 0, n_frames, n_channels)

\* The detector resized to n channels: the channels kept keep their state,
\* new channels are silent.
set_channels(cm, n) ==
    LET det == cm.det
    IN  [cm EXCEPT !.det.env = [i \in 1..n |-> IF i <= Len(det.env) THEN det.env[i] ELSE 0],
                   !.det.win = [i \in 1..n |-> IF i <= Len(det.win) THEN det.win[i]
                                               ELSE Zeros(det.window_frames)]]

\* audio_requested keeping the attack it had.
audio_requested_stale_attack(m, sample_hz, frames, n_channels) ==
    LET c2 == update_release_to_sample_hz(m.c, sample_hz)
        c3 == IF m.c.kind = "Rms" THEN update_window_to_sample_hz(c2, sample_hz) ELSE c2
        c4 == set_channels(c3, n_channels)
    IN  compress([m EXCEPT !.c = c4], frames, n_channels)

\* audio_requested keeping the channels it had.
audio_requested_same_channels(m, sample_hz, frames, n_channels) ==
    LET c1 == update_attack_to_sample_hz(m.c, sample_hz)
        c2 == update_release_to_sample_hz(c1, sample_hz)
        c3 == IF m.c.kind = "Rms" THEN update_window_to_sample_hz(c2, sample_hz) ELSE c2
    IN  compress([m EXCEPT !.c = c3], frames, n_channels)

\* dsp::Node::audio_requested for PeakCompressor and for RmsCompressor
audio_requested(m, sample_hz, frames, n_channels) ==
    LET c1 == update_attack_to_sample_hz(m.c, sample_hz)
        c2 == update_release_to_sample_hz(c1, sample_hz)
        c3 == IF m.c.kind = "Rms" THEN update_window_to_sample_hz(c2, sample_hz) ELSE c2
        c4 == set_channels(c3, n_channels)
    IN  compress([m EXCEPT !.c = c4], frames, n_channels)

----------------------------------------------------------------------------
(* The state machine: one action per call of the public interface.  A call  *)
(* runs to completion; a panic unwinds out of it and ends the program.      *)

Op(name, ms, sample_hz, n_frames, n_channels) ==
    [name |-> name, ms |-> ms, sample_hz |-> sample_hz,
     n_frames |-> n_frames, n_channels |-> n_channels]

\* The state after construction with the given Compressor.
Constructed(cm) ==
    /\ c = cm
    /\ output = <<>>
    /\ input = <<>>
    /\ ret = 0
    /\ panicked = FALSE
    /\ trace = <<>>
    /\ op = Op("new", 0, 0, 0, Len(cm.det.env))
    /\ pre = cm
    /\ calls = 0

\* The caller is between two calls: nothing of a call is left to look at.
Idle == op.name \in {"new", "idle"}

CanCall == calls < MaxCalls /\ ~panicked /\ Idle

\* The state a call leaves: m is the call's final Machine, buf the buffer it
\* was given.
Return(m, o, buf) ==
    /\ c' = m.c
    /\ output' = m.out
    /\ input' = buf
    /\ ret' = m.ret
    /\ panicked' = m.panicked
    /\ trace' = m.trace
    /\ op' = o
    /\ pre' = c
    /\ calls' = calls + 1

\* A setter: no buffer, no detector step.
Configured(cm, o) ==
    /\ c' = cm
    /\ op' = o
    /\ pre' = c
    /\ calls' = calls + 1
    /\ output' = <<>>
    /\ input' = <<>>
    /\ ret' = 0
    /\ trace' = <<>>
    /\ UNCHANGED panicked

\* The caller has taken what the last call left (its buffer, its return value)
\* and goes on to its next call.  The Compressor stays as it is.
CallerGoesOn ==
    /\ ~Idle
    /\ ~panicked
    /\ calls < MaxCalls
    /\ output' = <<>>
    /\ input' = <<>>
    /\ ret' = 0
    /\ trace' = <<>>
    /\ op' = Op("idle", 0, 0, 0, 0)
    /\ pre' = c
    /\ UNCHANGED <<c, panicked, calls>>

SetAttackMs(ms, sample_hz) ==
    /\ CanCall
    /\ Configured(set_attack_ms(c, ms, sample_hz), Op("set_attack_ms", ms, sample_hz, 0, 0))

SetReleaseMs(ms, sample_hz) ==
    /\ CanCall
    /\ Configured(set_release_ms(c, ms, sample_hz), Op("set_release_ms", ms, sample_hz, 0, 0))

SetWindowMs(ms, sample_hz) ==
    /\ CanCall
    /\ c.kind = "Rms"
    /\ Configured(set_window_ms(c, ms, sample_hz), Op("set_window_ms", ms, sample_hz, 0, 0))

\* The frame type F fixes the number of channels of a frame.
NextGainPerChannel(frame) ==
    /\ CanCall
    /\ Len(frame) = Len(c.det.env)
    /\ Return(next_gain_per_channel(Machine(c, frame), frame),
              Op("next_gain_per_channel", 0, 0, 1, Len(frame)), frame)

NextGain(sample_per_channel) ==
    /\ CanCall
    /\ Return(next_gain(Machine(c, sample_per_channel), sample_per_channel),
              Op("next_gain", 0, 0, 1, Len(sample_per_channel)), sample_per_channel)

NextFrame(frame) ==
    /\ CanCall
    /\ Len(frame) = Len(c.det.env)
    /\ Return(next_frame(Machine(c, frame), frame),
              Op("next_frame", 0, 0, 1, Len(frame)), frame)

CompressPerChannel(buf, n_frames, n_channels) ==
    /\ CanCall
    /\ Return(compress_per_channel(Machine(c, buf), n_frames, n_channels),
              Op("compress_per_channel", 0, 0, n_frames, n_channels), buf)

Compress(buf, n_frames, n_channels) ==
    /\ CanCall
    /\ Return(compress(Machine(c, buf), n_frames, n_channels),
              Op("compress", 0, 0, n_frames, n_channels), buf)

\* dsp hands audio_requested a buffer of settings.frames * settings.channels
\* samples.
AudioRequested(buf, sample_hz, frames, channels) ==
    /\ CanCall
    /\ Len(buf) = frames * channels
    /\ Return(audio_requested(Machine(c, buf), sample_hz, frames, channels),
              Op("audio_requested", 0, sample_hz, frames, channels), buf)

----------------------------------------------------------------------------
(* Inputs.                                                                  *)

Kinds == {"Peak", "Rms"}
EvenGainFunctions == {"Average", "Minimum"}

\* 0.0, -0.5 and 2.0
SampleValues == {0, -(One \div 2), 2 * One}
\* -0.5, 0.0 and 0.5
Thresholds == {-(One \div 2), 0, One \div 2}
\* 1:2 (an expander), 1:1 and 4:1
Ratios == {One \div 2, One, 4 * One}
MsValues == {0, 1, 3}
SampleRates == {500, 1000}

ChannelCounts == 1..MaxChannels

SeqsOf(S, n) == [1..n -> S]

\* The buffers of n samples that hold one value of S throughout.
SteadyBuffers(S, n) == {[i \in 1..n |-> v] : v \in S}

Buffers(S, lens) == UNION {SeqsOf(S, n) : n \in lens}

Compressors(kinds, egfs, windows, attacks, releases, rates, channels, thresholds, ratios) ==
    (IF "Peak" \in kinds
     THEN {peak(e, a, r, hz, n, t, ra) :
              e \in egfs, a \in attacks, r \in releases, hz \in rates,
              n \in channels, t \in thresholds, ra \in ratios}
     ELSE {})
    \cup
    (IF "Rms" \in kinds
     THEN {rms(e, w, a, r, hz, n, t, ra) :
              e \in egfs, w \in windows, a \in attacks, r \in releases, hz \in rates,
              n \in channels,
              t \in thresholds, ra \in ratios}
     ELSE {})

----------------------------------------------------------------------------
(* The gain law: frames run through next_gain_per_channel.                  *)

InitGain ==
    \E cm \in Compressors(Kinds, {"Average"}, {3}, {0, 3}, {0, 3}, {1000}, ChannelCounts,
                          Thresholds, Ratios) :
        Constructed(cm)

NextGainStep ==
    \/ CallerGoesOn
    \/ \E frame \in SeqsOf(SampleValues, Len(c.det.env)) : NextGainPerChannel(frame)

SpecGain == InitGain /\ [][NextGainStep]_vars

\* The call just made is next_gain_per_channel and it returned a frame of gains.
GainFrameReturned == op.name = "next_gain_per_channel" /\ ~panicked

\* C1: every gain next_gain_per_channel returns is computed from the detected
\* envelope e of its channel, clamped to e1 = min(e, 1): 1 - (e1 - t) * s when
\* e1 exceeds the threshold t, and 1 otherwise; an envelope equal to the
\* threshold gives the gain 1.
C1_GainLaw ==
    GainFrameReturned =>
        /\ Len(ret) = Len(c.det.env)
        /\ \A i \in 1..Len(ret) :
               LET e  == c.det.env[i]
                   e1 == IF e < One THEN e ELSE One
                   t  == c.threshold
               IN  /\ e1 > t => ret[i] = One - Quot((e1 - t) * c.slope, One)
                   /\ e1 <= t => ret[i] = One
                   /\ e = t => ret[i] = One

\* A two-channel frame: one envelope above 1.0 (clamped, attenuated), the other
\* exactly on a positive threshold (not attenuated).
C1_Witness ==
    /\ GainFrameReturned
    /\ c.threshold > 0
    /\ c.slope > 0
    /\ \E i, j \in 1..Len(ret) :
           /\ c.det.env[i] > One /\ ret[i] < One
           /\ c.det.env[j] = c.threshold /\ ret[j] = One

\* The typical ranges: a threshold in [0, 1] and a slope in [0, 1).
TypicalRanges ==
    /\ 0 <= c.threshold /\ c.threshold <= One
    /\ 0 <= c.slope /\ c.slope < One

\* C2: with the threshold in [0, 1] and the slope in [0, 1), no gain of the gain
\* law is negative or above 1, after any sequence of frames.
C2_GainInRange ==
    (GainFrameReturned /\ TypicalRanges) =>
        \A i \in 1..Len(ret) : 0 <= ret[i] /\ ret[i] <= One

\* A second frame in a row, with an envelope above 1.0 and a gain below 1.
C2_Witness ==
    /\ GainFrameReturned
    /\ TypicalRanges
    /\ calls >= 2
    /\ \E i \in 1..Len(ret) : c.det.env[i] > One /\ ret[i] < One

----------------------------------------------------------------------------
(* The even gain functions: the samples of one frame handed to next_gain.   *)

\* -0.5 and 2.0
LoudSampleValues == {-(One \div 2), 2 * One}

InitEven ==
    \E cm \in Compressors({"Peak"}, EvenGainFunctions, {}, {0, 3}, {0, 3}, {1000}, ChannelCounts,
                          Thresholds, Ratios) :
        Constructed(cm)

NextEven ==
    \/ CallerGoesOn
    \/ \E samples \in Buffers(LoudSampleValues, 0..MaxChannels) : NextGain(samples)

SpecEven == InitEven /\ [][NextEven]_vars

\* The call just made is next_gain of the given even gain function, on k
\* samples, k not above the detector's channel count.
EvenGainReturned(egf) == op.name = "next_gain" /\ c.egf = egf /\ ~panicked

\* The gain of channel i (from 1) in the call just made: the gain law applied to
\* the envelope the detector holds for the channel after its one step.
ChannelGain(i) ==
    LET e == c.det.env[i]
    IN  IF e > c.threshold THEN One - Quot((e - c.threshold) * c.slope, One) ELSE One

IsLeast(g, S) == g \in S /\ \A x \in S : g <= x

\* C3: Minimum::next_gain on the k samples of a frame returns the least of the k
\* per-channel gains, for any threshold and slope; on no samples it returns 1.0.
C3_MinimumOfGains ==
    EvenGainReturned("Minimum") =>
        LET k == op.n_channels
        IN  IF k = 0 THEN ret = One
            ELSE IsLeast(ret, {ChannelGain(i) : i \in 1..k})

\* C4: Average::next_gain on k >= 1 samples returns the sum of the k per-channel
\* gains divided by k; on no samples it returns NaN, where Minimum returns 1.0.
C4_AverageOfGains ==
    /\ EvenGainReturned("Average") =>
           LET k   == op.n_channels
               sum == SumSeq([i \in 1..k |-> ChannelGain(i)])
           IN  IF k = 0 THEN ret = NaN /\ ret # One
               ELSE /\ k * Abs(ret) <= Abs(sum)
                    /\ Abs(sum) < k * (Abs(ret) + 1)
                    /\ ret # 0 => (ret < 0) = (sum < 0)
    /\ (EvenGainReturned("Minimum") /\ op.n_channels = 0) => ret = One

\* Two channels with different gains, and their mean strictly between them.
C4_Witness ==
    /\ EvenGainReturned("Average")
    /\ op.n_channels = 2
    /\ ChannelGain(1) < ret
    /\ ret < ChannelGain(2)

----------------------------------------------------------------------------
(* Buffers: compress, compress_per_channel and next_frame.                  *)

\* The buffers handed in with n_frames and n_channels: every buffer of the
\* length the two announce, and the steady buffers one sample shorter or one
\* sample longer.
BuffersFor(n_frames, n_channels) ==
    LET n == n_frames * n_channels
    IN  (IF n <= MaxBufLen THEN SeqsOf(LoudSampleValues, n) ELSE {})
        \cup UNION {SteadyBuffers(LoudSampleValues, k) :
                        k \in {n - 1, n + 1} \cap (0..MaxBufLen)}

InitBuffer ==
    \E cm \in Compressors({"Peak"}, EvenGainFunctions, {}, {0, 3}, {0}, {1000},
                          ChannelCounts, {One \div 2}, {4 * One})
               \cup Compressors({"Rms"}, EvenGainFunctions, {3}, {0}, {0}, {1000},
                               ChannelCounts, {One \div 2}, {4 * One}) :
        Constructed(cm)

NextBuffer ==
    \/ CallerGoesOn
    \/ \E n_frames \in 0..MaxFrames, n_channels \in 0..MaxChannels :
           \E buf \in BuffersFor(n_frames, n_channels) :
               Compress(buf, n_frames, n_channels)
    \/ \E n_frames \in 0..MaxFrames, n_channels \in 0..MaxChannels :
           \E buf \in BuffersFor(n_frames, n_channels) :
               CompressPerChannel(buf, n_frames, n_channels)
    \/ \E frame \in SeqsOf(LoudSampleValues, Len(c.det.env)) : NextFrame(frame)
    \/ \E samples \in Buffers(LoudSampleValues, 0..MaxChannels) : NextGain(samples)

SpecBuffer == InitBuffer /\ [][NextBuffer]_vars

\* Frame f (from 0) of n_channels samples of an interleaved buffer.
FrameOf(buf, f, n_channels) == SubSeq(buf, f * n_channels + 1, (f + 1) * n_channels)

\* The even gains of frames f, f + 1, ... below n_frames of the buffer buf, each
\* computed from the samples buf holds, by a Compressor that starts as cm.
RECURSIVE EvenGains(_, _, _, _, _)
EvenGains(cm, buf, f, n_frames, n_channels) ==
    IF f >= n_frames THEN <<>>
    ELSE LET m == next_gain(Machine(cm, <<>>), FrameOf(buf, f, n_channels))
         IN  <<m.ret>> \o EvenGains(m.c, buf, f + 1, n_frames, n_channels)

\* C5: compress replaces every sample of frame f by the original sample times
\* g_f, the one even gain of frame f computed from the frame's original samples;
\* all channels of a frame get the same gain, and the samples past the last
\* frame stay as they were.  next_frame does the same for its one frame.
C5_EvenGainPerFrame ==
    /\ (op.name = "compress" /\ ~panicked) =>
           LET n == op.n_channels
               g == EvenGains(pre, input, 0, op.n_frames, n)
           IN  /\ Len(output) = Len(input)
               /\ \A f \in 0..(op.n_frames - 1) : \A j \in 1..n :
                      output[f * n + j] = Quot(input[f * n + j] * g[f + 1], One)
               /\ \A i \in (op.n_frames * n + 1)..Len(input) : output[i] = input[i]
    /\ (op.name = "next_frame" /\ ~panicked) =>
           LET g == EvenGains(pre, input, 0, 1, Len(input))
           IN  output = [i \in 1..Len(input) |-> Quot(input[i] * g[1], One)]

\* Two frames of two channels, compressed by two different gains.
C5_Witness ==
    /\ op.name = "compress" /\ ~panicked
    /\ op.n_frames = 2 /\ op.n_channels = 2
    /\ LET g == EvenGains(pre, input, 0, 2, 2)
       IN  /\ g[1] < One /\ g[2] < g[1]
           /\ output # input
           /\ input[1] # input[2]

\* The samples of channel j (from 1) of an interleaved buffer, frame by frame.
ChannelOf(buf, j, n_frames, n_channels) ==
    [f \in 1..n_frames |-> buf[(f - 1) * n_channels + j]]

\* One channel on its own: the samples col[k], col[k + 1], ... run through an
\* envelope that starts at env (window win), each scaled by the gain of the
\* envelope it produced.  The scaled samples and the envelope left.
RECURSIVE ChannelAlone(_, _, _, _, _)
ChannelAlone(cm, env, win, col, k) ==
    IF k > Len(col) THEN [out |-> <<>>, env |-> env]
    ELSE LET r    == ChannelNext(cm.kind, cm.det, env, win, col[k])
             gain == IF r.env > cm.threshold
                     THEN One - Quot((r.env - cm.threshold) * cm.slope, One)
                     ELSE One
             rest == ChannelAlone(cm, r.env, r.win, col, k + 1)
         IN  [out |-> <<Quot(col[k] * gain, One)>> \o rest.out, env |-> rest.env]

\* C10: compress_per_channel scales the samples of channel j by gains computed
\* from channel j's own envelope only: the outputs and the final envelope of
\* channel j are those of channel j's samples processed alone, whatever the
\* other channels hold, and a channel that gets no sample keeps its envelope.
C10_ChannelsIndependent ==
    (op.name = "compress_per_channel" /\ ~panicked) =>
        LET n == op.n_channels
        IN  /\ op.n_frames > 0 => n <= Len(pre.det.env)
            /\ \A j \in 1..n :
                   op.n_frames > 0 =>
                       LET col == ChannelOf(input, j, op.n_frames, n)
                           r   == ChannelAlone(pre, pre.det.env[j], pre.det.win[j], col, 1)
                       IN  /\ \A f \in 1..op.n_frames :
                                  output[(f - 1) * n + j] = r.out[f]
                           /\ c.det.env[j] = r.env
            /\ \A j \in (n + 1)..Len(c.det.env) : c.det.env[j] = pre.det.env[j]

\* Two frames of two channels whose channels end on different envelopes and
\* were scaled by different gains.
C10_Witness ==
    /\ op.name = "compress_per_channel" /\ ~panicked
    /\ op.n_frames = 2 /\ op.n_channels = 2
    /\ c.det.env[1] # c.det.env[2]
    /\ input[3] = input[4]
    /\ output[3] # output[4]
    /\ output[3] # input[3]

\* The call just made works through a buffer of samples.
BufferCall == op.name \in {"compress", "compress_per_channel", "next_gain"}

\* The fatal precondition violations of the call just made: more samples per
\* frame than the detector had channels, or a buffer shorter than
\* n_frames * n_channels.
PreconditionViolated ==
    /\ op.n_frames >= 1
    /\ \/ op.n_channels > Len(pre.det.env)
       \/ op.n_frames * op.n_channels > Len(input)

\* C8 as claimed: a call that hits a fatal precondition violation aborts before
\* any mutation (no output sample overwritten, no envelope advanced); any other
\* call processes the whole buffer.
C8_AbortBeforeMutation ==
    BufferCall =>
        /\ panicked = PreconditionViolated
        /\ panicked => output = input /\ trace = <<>> /\ c = pre
        /\ ~panicked => Len(trace) = op.n_frames * op.n_channels

\* C8 amended: the call aborts at the first offending frame (compress) or sample
\* (compress_per_channel, next_gain).  What precedes it has been processed as
\* in a call without the violation, outputs overwritten and envelopes advanced;
\* in a frame with too many channels the even gain functions have advanced the
\* envelopes of all the detector's channels before they abort; the samples from
\* the offence on are untouched.  Any other call processes the whole buffer.
C8_AbortAtFirstOffence ==
    BufferCall =>
        LET D  == Len(pre.det.env)
            L  == Len(input)
            n  == op.n_channels
        IN  /\ panicked = PreconditionViolated
            /\ ~panicked => Len(trace) = op.n_frames * n
            /\ (panicked /\ op.name = "next_gain") =>
                   output = input /\ Len(trace) = D
            /\ (panicked /\ op.name = "compress") =>
                   IF n > D
                   THEN output = input /\ Len(trace) = (IF n <= L THEN D ELSE 0)
                   ELSE LET m == compress(Machine(pre, input), L \div n, n)
                        IN  ~m.panicked /\ output = m.out /\ c = m.c /\ trace = m.trace
            /\ (panicked /\ op.name = "compress_per_channel") =>
                   LET whole == IF n > D THEN 0 ELSE L \div n
                       a     == IF n > D THEN Min2(D, L) ELSE L
                       m1    == compress_per_channel(Machine(pre, input), whole, n)
                       m2    == compress_per_channel_loop(m1, whole * n, 0, 0, 1, a - whole * n)
                   IN  /\ ~m2.panicked /\ output = m2.out /\ c = m2.c /\ trace = m2.trace
                       /\ Len(trace) = a
                       /\ \A i \in (a + 1)..L : output[i] = input[i]

\* compress on a buffer one sample short of its second frame: it panics after
\* the first frame has been overwritten and both envelopes advanced.
C8_Witness ==
    /\ op.name = "compress" /\ panicked
    /\ op.n_frames = 2 /\ op.n_channels = 2 /\ Len(input) = 3
    /\ Len(trace) = 2
    /\ output[1] # input[1] /\ output[2] # input[2]
    /\ output[3] = input[3]
    /\ c.det.env # pre.det.env

\* The envelope and window channel j (from 1) is left with when the samples
\* col[k], col[k + 1], ... are run through it, one detector step each.
RECURSIVE Advanced(_, _, _, _, _)
Advanced(cm, env, win, col, k) ==
    IF k > Len(col) THEN [env |-> env, win |-> win]
    ELSE LET r == ChannelNext(cm.kind, cm.det, env, win, col[k])
         IN  Advanced(cm, r.env, r.win, col, k + 1)

\* C11: a compress (Average or Minimum) or compress_per_channel call that works
\* through its whole buffer steps the detector once per channel per frame:
\* frame by frame in buffer order, channels 0..n_channels-1 in index order,
\* each with its own original sample of that frame.  No channel is skipped or
\* stepped twice: each channel of the buffer is stepped n_frames times and its
\* envelope is the one n_frames steps on its own samples give; the detector's
\* channels beyond n_channels are not stepped.
C11_OncePerChannelPerFrame ==
    (op.name \in {"compress", "compress_per_channel"} /\ ~panicked) =>
        LET n == op.n_channels
        IN  /\ Len(trace) = op.n_frames * n
            /\ \A f \in 0..(op.n_frames - 1) : \A j \in 0..(n - 1) :
                   /\ trace[f * n + j + 1].channel = j
                   /\ trace[f * n + j + 1].sample = input[f * n + j + 1]
            /\ \A j \in 0..(n - 1) :
                   Cardinality({k \in 1..Len(trace) : trace[k].channel = j}) = op.n_frames
            /\ op.n_frames > 0 =>
                   \A j \in 1..n :
                       LET col == ChannelOf(input, j, op.n_frames, n)
                           r   == Advanced(pre, pre.det.env[j], pre.det.win[j], col, 1)
                       IN  c.det.env[j] = r.env /\ c.det.win[j] = r.win
            /\ \A j \in (IF op.n_frames > 0 THEN n + 1 ELSE 1)..Len(c.det.env) :
                   c.det.env[j] = pre.det.env[j] /\ c.det.win[j] = pre.det.win[j]

\* A second or later call, compress over two frames of two channels whose
\* samples differ within a frame: four detector steps, channels 0, 1, 0, 1, and
\* both envelopes moved.
C11_Witness ==
    /\ op.name = "compress" /\ ~panicked
    /\ calls >= 2
    /\ op.n_frames = 2 /\ op.n_channels = 2
    /\ Len(trace) = 4
    /\ trace[1].sample # trace[2].sample
    /\ trace[3].channel = 0 /\ trace[4].channel = 1
    /\ c.det.env[1] # pre.det.env[1]
    /\ c.det.env[2] # pre.det.env[2]

----------------------------------------------------------------------------
(* The dsp node: audio_requested at changing sample rates and channel       *)
(* counts, and the setters of the durations.                                *)

InitNode ==
    \E cm \in Compressors(Kinds, {"Minimum"}, {1, 3}, {1, 3}, {0, 3}, SampleRates, ChannelCounts,
                          {0}, {4 * One}) :
        Constructed(cm)

NextNode ==
    \/ CallerGoesOn
    \/ \E sample_hz \in SampleRates, frames \in 0..MaxFrames, channels \in 0..MaxChannels :
           /\ frames * channels <= MaxBufLen
           /\ \E buf \in SteadyBuffers(LoudSampleValues, frames * channels) :
                  AudioRequested(buf, sample_hz, frames, channels)
    \/ \E ms \in MsValues, sample_hz \in SampleRates : SetAttackMs(ms, sample_hz)
    \/ \E ms \in MsValues, sample_hz \in SampleRates : SetReleaseMs(ms, sample_hz)
    \/ \E ms \in MsValues, sample_hz \in SampleRates : SetWindowMs(ms, sample_hz)

SpecNode == InitNode /\ [][NextNode]_vars

\* C6: every sample of an audio_requested call is run through the detector with
\* the attack, release and (Rms) window that the stored durations give at the
\* sample rate of that call, whatever the rates of the calls before.
C6_RateOfTheCall ==
    op.name = "audio_requested" =>
        /\ Len(trace) = op.n_frames * op.n_channels
        /\ \A k \in 1..Len(trace) :
               /\ trace[k].attack_frames = c.attack_ms * op.sample_hz
               /\ trace[k].release_frames = c.release_ms * op.sample_hz
               /\ c.kind = "Rms" =>
                      trace[k].window_frames * FramesUnit <= c.det.window_ms * op.sample_hz
                      /\ c.det.window_ms * op.sample_hz < (trace[k].window_frames + 1) * FramesUnit

\* The second or a later call, at a rate under which attack, release and window
\* all differ from the ones the detector had, with samples to process.
C6_Witness ==
    /\ op.name = "audio_requested"
    /\ calls >= 2
    /\ trace # <<>>
    /\ c.kind = "Rms"
    /\ pre.det.attack_frames # c.det.attack_frames
    /\ pre.det.release_frames # c.det.release_frames
    /\ pre.det.window_frames # c.det.window_frames

\* C7: after set_attack_ms(v, hz), set_release_ms(v, hz) or set_window_ms(v, hz)
\* the stored duration is v and the detector's attack / release is v * hz / 1000
\* frames, its window v * hz / 1000 frames truncated to an integer.
C7_SetterRederives ==
    /\ op.name = "set_attack_ms" =>
           c.attack_ms = op.ms /\ c.det.attack_frames = op.ms * op.sample_hz
    /\ op.name = "set_release_ms" =>
           c.release_ms = op.ms /\ c.det.release_frames = op.ms * op.sample_hz
    /\ op.name = "set_window_ms" =>
           /\ c.det.window_ms = op.ms
           /\ c.det.window_frames * FramesUnit <= op.ms * op.sample_hz
           /\ op.ms * op.sample_hz < (c.det.window_frames + 1) * FramesUnit
           /\ \A i \in 1..Len(c.det.win) : Len(c.det.win[i]) = c.det.window_frames

\* A setter that changed both the stored duration and the detector's value.
SetterChanged(name, stored, stored_before, derived, derived_before) ==
    op.name = name /\ stored # stored_before /\ derived # derived_before

\* The attack set after another call, to a new duration and a new length in
\* frames that is no whole number of frames.
C7_Witness ==
    /\ calls >= 2
    /\ SetterChanged("set_attack_ms", c.attack_ms, pre.attack_ms,
                     c.det.attack_frames, pre.det.attack_frames)
    /\ c.det.attack_frames % FramesUnit # 0

\* C9 as claimed: an audio_requested call whose settings.channels differs from
\* the detector's channel count fails, and the detector keeps its channel count.
C9_MismatchIsFatal ==
    (op.name = "audio_requested" /\ op.n_channels # Len(pre.det.env)) =>
        panicked /\ Len(c.det.env) = Len(pre.det.env)

\* C9 amended: an audio_requested call whose settings.channels differs from the
\* detector's channel count does not fail: the detector is set to
\* settings.channels channels, the channels kept go on from their envelopes,
\* and the whole buffer is processed.
C9_MismatchIsAdopted ==
    op.name = "audio_requested" =>
        /\ ~panicked
        /\ Len(c.det.env) = op.n_channels
        /\ Len(trace) = op.n_frames * op.n_channels
        /\ op.n_frames = 0 =>
               \A i \in 1..Min2(op.n_channels, Len(pre.det.env)) :
                   c.det.env[i] = pre.det.env[i]

\* A call with more channels than the detector had, all of them processed.
C9_Witness ==
    /\ op.name = "audio_requested"
    /\ ~panicked
    /\ op.n_channels > Len(pre.det.env)
    /\ op.n_frames >= 1
    /\ Len(trace) = op.n_frames * op.n_channels
    /\ output # input

====
